---- MODULE Spec2Model ----
(***************************************************************************)
(* The timeline map page of travelrecap: a Google Timeline export is       *)
(* selected in the file input, read by a FileReader, normalised by         *)
(* processTimelineData into allLocations and drawn by renderMarkers under  *)
(* the year filter.                                                        *)
(***************************************************************************)
EXTENDS Integers, Sequences, FiniteSets, TLC

(***************************************************************************)
(* Bounds of the model.                                                    *)
(***************************************************************************)
\* longest semanticSegments array of an export
MaxSegs == 2
\* uploads per page load, read or in flight (a successful read appends the
\* year options to the dropdown once more)
MaxLoads == 2
\* new Date().getFullYear() of the browser
CurrentYear == 2021

(***************************************************************************)
(* JavaScript values.  Every value is a record with a tag; strings are     *)
(* sequences of one-character strings so that they can be scanned.         *)
(***************************************************************************)
Undefined == [tag |-> "undefined"]
Null == [tag |-> "null"]
NaN == [tag |-> "number", nan |-> TRUE, n |-> 0]
Num(n) == [tag |-> "number", nan |-> FALSE, n |-> n]
Str(s) == [tag |-> "string", s |-> s]
Obj(fields) == [tag |-> "object", f |-> fields]
Arr(elems) == [tag |-> "array", a |-> elems]

\* ToBoolean: what `if (v)`, `a && b` and `a || b` test
Truthy(v) ==
    CASE v.tag = "undefined" -> FALSE
      [] v.tag = "null" -> FALSE
      [] v.tag = "number" -> ~v.nan /\ v.n # 0
      [] v.tag = "string" -> v.s # <<>>
      [] OTHER -> TRUE

\* v.k throws a TypeError exactly when v is null or undefined
ReadThrows(v) == v.tag \in {"undefined", "null"}

\* v.k for a v on which the read does not throw
Get(v, k) ==
    IF v.tag = "object" /\ k \in DOMAIN v.f THEN v.f[k] ELSE Undefined

Digits == <<"0", "1", "2", "3", "4", "5", "6", "7", "8", "9">>

IsDigit(c) == \E d \in 1..10 : Digits[d] = c

DigitVal(c) == (CHOOSE d \in 1..10 : Digits[d] = c) - 1

IsSpace(c) == c = " "

\* String.prototype.replace(/°/g, '')
RECURSIVE StripDegrees(_)
StripDegrees(s) ==
    IF s = <<>> THEN <<>>
    ELSE IF Head(s) = "°" THEN StripDegrees(Tail(s))
    ELSE <<Head(s)>> \o StripDegrees(Tail(s))

\* String.prototype.split(','): the pieces between the commas
RECURSIVE SplitComma(_)
SplitComma(s) ==
    IF \A i \in 1..Len(s) : s[i] # ","
    THEN <<s>>
    ELSE LET i == CHOOSE j \in 1..Len(s) :
                      s[j] = "," /\ \A k \in 1..(j - 1) : s[k] # ","
         IN <<SubSeq(s, 1, i - 1)>> \o SplitComma(SubSeq(s, i + 1, Len(s)))

RECURSIVE TrimLeft(_)
TrimLeft(s) ==
    IF s # <<>> /\ IsSpace(Head(s)) THEN TrimLeft(Tail(s)) ELSE s

RECURSIVE TrimRight(_)
TrimRight(s) ==
    IF s # <<>> /\ IsSpace(s[Len(s)])
    THEN TrimRight(SubSeq(s, 1, Len(s) - 1))
    ELSE s

\* String.prototype.trim()
Trim(s) == TrimRight(TrimLeft(s))

\* the value of the longest run of digits s starts with, acc the value so far
RECURSIVE DigitsValue(_, _)
DigitsValue(s, acc) ==
    IF s # <<>> /\ IsDigit(Head(s))
    THEN DigitsValue(Tail(s), 10 * acc + DigitVal(Head(s)))
    ELSE acc

\* parseFloat on strings without '.' or exponent: leading blanks, an optional
\* sign, then the longest run of digits; NaN when no digit follows
parseFloat(s) ==
    LET t == TrimLeft(s)
        signed == t # <<>> /\ Head(t) \in {"-", "+"}
        u == IF signed THEN Tail(t) ELSE t
    IN IF u = <<>> \/ ~IsDigit(Head(u)) THEN NaN
       ELSE IF signed /\ Head(t) = "-" THEN Num(0 - DigitsValue(u, 0))
       ELSE Num(DigitsValue(u, 0))

isNaN(v) == v.nan

\* parseInt(s) for a decimal string: as parseFloat, NaN without a leading digit
parseInt(s) == parseFloat(s)

\* Number-to-string conversion of a non-negative integer (option.value = year)
RECURSIVE NumberToString(_)
NumberToString(n) ==
    IF n < 10 THEN <<Digits[n + 1]>>
    ELSE NumberToString(n \div 10) \o <<Digits[(n % 10) + 1]>>

\* new Date(v).getFullYear() for the timestamps of the model's exports: a
\* string "YYYY-MM" with a month 01..12 is a date of that year, any other
\* string and undefined are Invalid Date, whose year is NaN
getFullYear(v) ==
    IF /\ v.tag = "string"
       /\ Len(v.s) = 7
       /\ \A i \in {1, 2, 3, 4, 6, 7} : IsDigit(v.s[i])
       /\ v.s[5] = "-"
       /\ DigitsValue(SubSeq(v.s, 6, 7), 0) \in 1..12
    THEN Num(DigitsValue(SubSeq(v.s, 1, 4), 0))
    ELSE NaN

(***************************************************************************)
(* processTimelineData: the forEach callback on one segment.  The result   *)
(* is the visit list after the callback and whether it threw.              *)
(***************************************************************************)
\* (push that puts the entry first)
pushFront(locs, entry) == <<entry>> \o locs

\* allLocations.push(entry)
push(locs, entry) == Append(locs, entry)

SegmentCallback(segment, locs) ==
    IF ReadThrows(segment) THEN [locs |-> locs, threw |-> TRUE]
    ELSE LET visit == Get(segment, "visit")
             topCandidate == Get(visit, "topCandidate")
             placeLocation == Get(topCandidate, "placeLocation")
             latLngStr == Get(placeLocation, "latLng")
         IN IF ~(Truthy(visit) /\ Truthy(topCandidate)
                 /\ Truthy(placeLocation) /\ Truthy(latLngStr))
            THEN [locs |-> locs, threw |-> FALSE]
            ELSE IF latLngStr.tag # "string"
            THEN [locs |-> locs, threw |-> TRUE]
            ELSE LET parts == SplitComma(StripDegrees(latLngStr.s))
                     lat == parseFloat(Trim(parts[1]))
                     lng == parseFloat(Trim(parts[2]))
                 IN IF Len(parts) = 2 /\ ~isNaN(lat) /\ ~isNaN(lng)
                    THEN [locs |-> push(locs,
                                      [lat |-> lat.n,
                                       lng |-> lng.n,
                                       startTime |-> Get(segment, "startTime"),
                                       address |-> Get(placeLocation, "address"),
                                       name |-> Get(placeLocation, "name"),
                                       probability |-> Get(visit, "probability")]),
                          threw |-> FALSE]
                    ELSE [locs |-> locs, threw |-> FALSE]

\* segments.forEach(callback) from element i on; an exception ends the loop
RECURSIVE forEachSegment(_, _, _)
forEachSegment(segments, i, locs) ==
    IF i > Len(segments) THEN [locs |-> locs, threw |-> FALSE]
    ELSE LET r == SegmentCallback(segments[i], locs)
         IN IF r.threw THEN r ELSE forEachSegment(segments, i + 1, r.locs)

\* (a processTimelineData that does not reset the list)
KeepLocations(old) == old

\* the visit list processTimelineData starts from
ResetLocations(old) == <<>>

\* processTimelineData up to the end of the forEach: allLocations as the
\* function leaves it, and whether it threw before renderMarkers
Normalize(data, old) ==
    LET start == ResetLocations(old)
    IN IF ReadThrows(data) THEN [locs |-> start, threw |-> TRUE]
       ELSE LET field == Get(data, "semanticSegments")
                segments == IF Truthy(field) THEN field ELSE Arr(<<>>)
            IN IF segments.tag # "array"
               THEN [locs |-> start, threw |-> TRUE]
               ELSE forEachSegment(segments.a, 1, start)

(***************************************************************************)
(* renderMarkers                                                           *)
(***************************************************************************)
\* buildPopupContent: the lines of the popup
buildPopupContent(loc) ==
    [name |-> IF Truthy(loc.name) THEN loc.name ELSE Undefined,
     address |-> IF Truthy(loc.address) THEN loc.address
                 ELSE Str(<<"Unknown Location">>),
     date |-> IF Truthy(loc.startTime) THEN getFullYear(loc.startTime)
              ELSE Undefined,
     coords |-> <<loc.lat, loc.lng>>]

\* (a year filter that lets locations without a start time through)
YearMatchesUndated(loc, year) ==
    \/ ~Truthy(loc.startTime)
    \/ LET visitYear == getFullYear(loc.startTime)
           yearInt == parseInt(year.s)
       IN ~visitYear.nan /\ ~yearInt.nan /\ visitYear.n = yearInt.n

\* the year filter's predicate on one location
YearMatches(loc, year) ==
    /\ Truthy(loc.startTime)
    /\ LET visitYear == getFullYear(loc.startTime)
           yearInt == parseInt(year.s)
       IN ~visitYear.nan /\ ~yearInt.nan /\ visitYear.n = yearInt.n

RECURSIVE FilterYear(_, _)
FilterYear(locs, year) ==
    IF locs = <<>> THEN <<>>
    ELSE IF YearMatches(Head(locs), year)
    THEN <<Head(locs)>> \o FilterYear(Tail(locs), year)
    ELSE FilterYear(Tail(locs), year)

\* the locations renderMarkers draws
FilteredLocations(locs, year) ==
    IF Truthy(year) THEN FilterYear(locs, year) ELSE locs

\* (a clearLayers that removes nothing)
keepLayers(layer) == layer

\* markers.clearLayers()
clearLayers(layer) == <<>>

\* the marker layer after renderMarkers(), layer being what it held before
renderMarkers(layer, locs, year) ==
    LET filtered == FilteredLocations(locs, year)
    IN clearLayers(layer) \o
       [i \in 1..Len(filtered) |->
           [lat |-> filtered[i].lat,
            lng |-> filtered[i].lng,
            popup |-> buildPopupContent(filtered[i])]]

(***************************************************************************)
(* The exports the model uploads.                                          *)
(***************************************************************************)
PlaceAt(latLng) == Obj([latLng |-> latLng])

VisitOf(place) ==
    Obj([topCandidate |-> Obj([placeLocation |-> place]),
         probability |-> Num(1)])

TimedVisit(latLng, time) ==
    Obj([visit |-> VisitOf(PlaceAt(Str(latLng))), startTime |-> Str(time)])

\* "10°, 20°" in June 2021, with a name and an address
SegHome ==
    Obj([visit |-> VisitOf(Obj([latLng |-> Str(<<"1", "0", "°", ",", " ", "2", "0", "°">>),
                                name |-> Str(<<"H">>),
                                address |-> Str(<<"A">>)])),
         startTime |-> Str(<<"2", "0", "2", "1", "-", "0", "6">>)])
\* "-5°, 7°" in June 2020
SegTrip == TimedVisit(<<"-", "5", "°", ",", " ", "7", "°">>,
                      <<"2", "0", "2", "0", "-", "0", "6">>)
\* a visit without startTime
SegNoTime == Obj([visit |-> VisitOf(PlaceAt(Str(<<"3", "°", ",", "4", "°">>)))])
\* a visit whose startTime is no date
SegBadTime == TimedVisit(<<"3", "°", ",", "4", "°">>, <<"x">>)
\* latitude 95
SegLat95 == TimedVisit(<<"9", "5", "°", ",", " ", "2", "0", "°">>,
                       <<"2", "0", "2", "1", "-", "0", "6">>)
\* a latitude that is no number
SegLatNaN == TimedVisit(<<"x", "°", ",", " ", "2", "0", "°">>,
                        <<"2", "0", "2", "1", "-", "0", "6">>)
\* a coordinate string without a comma
SegOnePart == TimedVisit(<<"1", "0", "°">>, <<"2", "0", "2", "1", "-", "0", "6">>)
\* latLng is a number, not a string
SegLatLngNumber ==
    Obj([visit |-> VisitOf(PlaceAt(Num(5))),
         startTime |-> Str(<<"2", "0", "2", "1", "-", "0", "6">>)])
\* an activity segment: no visit
SegActivity == Obj([activity |-> Obj([distanceMeters |-> Num(1000)])])
SegNoCandidate == Obj([visit |-> Obj([probability |-> Num(1)])])
SegNoPlace == Obj([visit |-> Obj([topCandidate |-> Obj([probability |-> Num(1)])])])
SegNoLatLng == Obj([visit |-> VisitOf(Obj([name |-> Str(<<"H">>)]))])
\* entries of the segment list that are no objects
SegNull == Null
SegNumber == Num(7)

\* the segment shapes by name
Segment(shape) ==
    CASE shape = "home" -> SegHome
      [] shape = "trip" -> SegTrip
      [] shape = "noTime" -> SegNoTime
      [] shape = "badTime" -> SegBadTime
      [] shape = "lat95" -> SegLat95
      [] shape = "latNaN" -> SegLatNaN
      [] shape = "onePart" -> SegOnePart
      [] shape = "latLngNumber" -> SegLatLngNumber
      [] shape = "activity" -> SegActivity
      [] shape = "noCandidate" -> SegNoCandidate
      [] shape = "noPlace" -> SegNoPlace
      [] shape = "noLatLng" -> SegNoLatLng
      [] shape = "null" -> SegNull
      [] shape = "number" -> SegNumber

\* segments as the exporter writes them, with coordinates in range
GoodShapes == {"home", "trip", "noTime", "badTime"}

\* segments whose coordinate string is malformed or out of range
BadCoordShapes == {"lat95", "latNaN", "onePart", "latLngNumber"}

\* segments of unrecognized shape
UnrecognizedShapes ==
    {"activity", "noCandidate", "noPlace", "noLatLng", "null", "number"}

\* the shapes of the exports with good and bad coordinates and times
CoordShapes == {"home", "noTime", "badTime", "lat95", "latNaN", "onePart",
                "activity", "null"}

\* the shapes of the exports with recognized and unrecognized segments
MixedShapes == {"home", "latLngNumber"} \cup UnrecognizedShapes

SeqsUpTo(S, n) == UNION {[1..k -> S] : k \in 0..n}

\* documents whose top level is not an object with a segment array
Document(doc) ==
    CASE doc = "null" -> Null
      [] doc = "number" -> Num(5)
      [] doc = "string" -> Str(<<"a">>)
      [] doc = "array" -> Arr(<<>>)
      [] doc = "noSegments" -> Obj([rawSignals |-> Arr(<<>>)])
      [] doc = "segmentsNull" -> Obj([semanticSegments |-> Null])
      [] doc = "segmentsNumber" -> Obj([semanticSegments |-> Num(5)])
      [] doc = "segmentsString" -> Obj([semanticSegments |-> Str(<<"a">>)])
      [] doc = "segmentsObject" -> Obj([semanticSegments |-> Obj([a |-> Null])])

OddDocuments ==
    {"null", "number", "string", "array", "noSegments", "segmentsNull",
     "segmentsNumber", "segmentsString", "segmentsObject"}

\* A file is named by what it holds: text that is no JSON, one of the odd
\* documents, or an export with the listed segments.
NotJson == [kind |-> "notJson", doc |-> "", segs |-> <<>>]
OddFile(doc) == [kind |-> "odd", doc |-> doc, segs |-> <<>>]
Export(shapes) == [kind |-> "export", doc |-> "", segs |-> shapes]

\* files of any kind, the exports with coordinates and times of all sorts
Files ==
    {NotJson} \cup {OddFile(d) : d \in OddDocuments}
    \cup {Export(s) : s \in SeqsUpTo(CoordShapes, MaxSegs)}

\* exports with segments of all shapes
ShapeFiles == {Export(s) : s \in SeqsUpTo(MixedShapes, MaxSegs)}

\* whether JSON.parse accepts the file's text
IsJson(file) == file.kind # "notJson"

\* JSON.parse of the file's text, for a file it accepts
JsonParse(file) ==
    IF file.kind = "odd" THEN Document(file.doc)
    ELSE Obj([semanticSegments |-> Arr([i \in 1..Len(file.segs) |-> Segment(file.segs[i])])])

\* the export the user had loaded before: two dated visits
BaseFile == Export(<<"home", "trip">>)

(***************************************************************************)
(* The analytics engine: Place Deduplicator and Stats Aggregator.  Their   *)
(* code (timeline-utils.js) is not among the sources; the definitions of   *)
(* this section follow sections 3, 4.1, 4.4 and 4.5 of the design.         *)
(***************************************************************************)
\* longest visit sequence given to dedupe
MaxVisits == 3
\* longest sequence of movement segments
MaxMoves == 2

\* the proximity radius in meters
Threshold == 100
\* the emissions factor, in grams per meter
E == 2

\* a visit without sourcePlaceId
NoId == "null"

\* The visits of the model lie on one meridian: coordinate is the distance
\* north of a base point in meters, and the great-circle distance of two
\* coordinates is their difference.
distance(a, b) == IF a >= b THEN a - b ELSE b - a

Visit(coordinate, id) == [coordinate |-> coordinate, sourcePlaceId |-> id]

MovementSegment(meters) == [distanceMeters |-> meters]

\* (a) the two visits share a non-null sourcePlaceId
SharesId(u, v) ==
    u.sourcePlaceId # NoId /\ u.sourcePlaceId = v.sourcePlaceId

\* a sourcePlaceId conflict: two different non-null identifiers
IdConflict(u, v) ==
    /\ u.sourcePlaceId # NoId
    /\ v.sourcePlaceId # NoId
    /\ u.sourcePlaceId # v.sourcePlaceId

\* the coordinates are within the proximity threshold
Within(u, v) == distance(u.coordinate, v.coordinate) <= Threshold

\* (a merge rule that knows proximity only)
MergesByProximity(u, v) == Within(u, v) /\ ~IdConflict(u, v)

\* two visits merge into the same Place: rule (a) or rule (b)
Merges(u, v) == SharesId(u, v) \/ (Within(u, v) /\ ~IdConflict(u, v))

\* (linkage that stops at the visits merging with a member directly)
LinkedDirectly(vs, members) ==
    members \cup {j \in 1..Len(vs) : \E i \in members : Merges(vs[i], vs[j])}

\* single linkage: the visits a chain of pairwise merges connects to members
RECURSIVE Linked(_, _)
Linked(vs, members) ==
    LET more == {j \in (1..Len(vs)) \ members :
                     \E i \in members : Merges(vs[i], vs[j])}
    IN IF more = {} THEN members ELSE Linked(vs, members \cup more)

\* the elements of a set of visit indices in input order
RECURSIVE InOrder(_)
InOrder(indices) ==
    IF indices = {} THEN <<>>
    ELSE LET first == CHOOSE i \in indices : \A j \in indices : i <= j
         IN <<first>> \o InOrder(indices \ {first})

RECURSIVE SumCoordinates(_, _)
SumCoordinates(vs, refs) ==
    IF refs = <<>> THEN 0
    ELSE vs[Head(refs)].coordinate + SumCoordinates(vs, Tail(refs))

\* a Place of the given member visits; its coordinate is their arithmetic
\* mean (whole meters), its country is resolved by the aggregator
Place(vs, members) ==
    LET refs == InOrder(members)
    IN [visits |-> refs,
        visitCount |-> Cardinality(members),
        representativeCoordinate |-> SumCoordinates(vs, refs) \div Len(refs),
        country |-> "null"]

\* (a test that finds no visit placed)
NeverPlaced(i, ps) == FALSE

\* visit i is a member of one of the Places
IsPlaced(i, ps) ==
    \E k \in 1..Len(ps) : \E m \in 1..Len(ps[k].visits) : ps[k].visits[m] = i

\* dedupe from visit i on: a visit not yet placed founds the next Place
RECURSIVE dedupeFrom(_, _, _)
dedupeFrom(vs, i, ps) ==
    IF i > Len(vs) THEN ps
    ELSE IF IsPlaced(i, ps) THEN dedupeFrom(vs, i + 1, ps)
    ELSE dedupeFrom(vs, i + 1, Append(ps, Place(vs, Linked(vs, {i}))))

dedupe(vs) == dedupeFrom(vs, 1, <<>>)

\* the sum of the distances of the movement segments, by linear scan
RECURSIVE SumMovements(_)
SumMovements(ms) ==
    IF ms = <<>> THEN 0
    ELSE Head(ms).distanceMeters + SumMovements(Tail(ms))

\* (total distance derived again from the gaps between successive visits)
RECURSIVE TotalFromGaps(_, _)
TotalFromGaps(vs, ms) ==
    IF Len(vs) < 2 THEN 0
    ELSE distance(vs[1].coordinate, vs[2].coordinate)
         + TotalFromGaps(Tail(vs), ms)

TotalDistance(vs, ms) == SumMovements(ms)

aggregate(vs, ms, ps) ==
    LET total == TotalDistance(vs, ms)
    IN [totalDistance |-> total,
        uniquePlaces |-> Len(ps),
        carbonEstimate |-> total * E]

\* analyze: dedupe, then aggregate
analyze(vs, ms) ==
    LET ps == dedupe(vs)
    IN [places |-> ps, stats |-> aggregate(vs, ms, ps)]

\* the inputs of the model
Coordinates == {0, 60, 120, 5000}

PlaceIds == {NoId, "p", "q"}

Visits == {Visit(c, id) : c \in Coordinates, id \in PlaceIds}

Distances == {0, 250, 1000}

Movements == {MovementSegment(d) : d \in Distances}

(***************************************************************************)
(* The page.                                                               *)
(***************************************************************************)
VARIABLES
    exports,        \* the files the user can select: name -> content
    backend,        \* "up" or "absent": the place-cache service
    allLocations,   \* the loaded visits
    markers,        \* the markers in the marker layer, in the order added
    selectedYear,   \* Null or the selected year option
    yearOptions,    \* the year options of the dropdown after the "" option
    status,         \* the upload-status span
    pending,        \* the file names of the FileReader reads in flight
    reads,          \* the file names the onload callbacks were given, in order
    currentStyle,   \* 'light' or 'dark'
    tileLayers,     \* the tile layers on the map
    localStorage,   \* mapStyle and mapYear
    mapDiv,         \* what the #map element holds
    network,        \* the requests the page has issued
    selected,       \* the file chosen last in the file input, NoFile before
    pageLoads       \* how often the page was loaded again

\* one run of the analytics engine
VARIABLES
    visits,         \* the normalized visits given to dedupe
    movements,      \* the normalized movement segments
    places,         \* the Places of the run
    stats,          \* the StatsBundle of the run
    run             \* "ready" before analyze, "done" after

\* the place-cache service and the page that fetches from it
VARIABLES
    table,          \* the rows of place_locations, in place_id order
    handles,        \* the *sql.DB handles opened so far: "open" or "closed"
    handler,        \* the goroutine serving the request: position and locals
    response,       \* the response of the request
    fetch,          \* the page's loadPlaceLocations: position
    console         \* what the page has logged

engineVars == <<visits, movements, places, stats, run>>

serviceVars == <<table, handles, handler, response, fetch, console>>

vars ==
    <<exports, backend, allLocations, markers, selectedYear, yearOptions,
      status, pending, reads, currentStyle, tileLayers, localStorage,
      mapDiv, network, selected, pageLoads, engineVars, serviceVars>>

StartYear == 2020

FileNames == {"A", "B"}

NoFile == "none"

\* a GET for map tiles: the only request Leaflet issues
TileRequest == [to |-> "tiles", body |-> "none"]

\* initializeYearFilter: appends an option per year, current year first
\* (an option is held as its year; its value is that number as a string)
RECURSIVE YearOptionsFrom(_)
YearOptionsFrom(year) ==
    IF year < StartYear THEN <<>>
    ELSE <<year>> \o YearOptionsFrom(year - 1)

NewYearOptions == YearOptionsFrom(CurrentYear)

initializeYearFilter(options) == options \o NewYearOptions

\* option.value
OptionValue(year) == Str(NumberToString(year))

\* (loadPlaceLocations fetching from the place-cache API, as src/script.js does)
loadPlaceLocationsFetch(service) ==
    [requests |-> {[to |-> "api", body |-> "none"]},
     mapDiv |-> IF service = "up" THEN "map" ELSE "error"]

\* loadPlaceLocations: the requests it issues and what it leaves in #map
loadPlaceLocations(service) == [requests |-> {}, mapDiv |-> "map"]

\* the values the year dropdown can take: "" and every option
YearValues ==
    {Str(<<>>)} \cup {OptionValue(yearOptions[i]) : i \in 1..Len(yearOptions)}

\* map.fitBounds and the markers added: tiles are fetched for the new view
ViewRequests(layer) == IF layer # <<>> THEN {TileRequest} ELSE {}

\* localStorage with neither item set: getItem gives null
FreshStore == [mapStyle |-> "null", mapYear |-> Null]

\* initMap with the given localStorage
InitMap(store) ==
    LET style == IF store.mapStyle \in {"dark", "light"}
                 THEN store.mapStyle ELSE "light"
        loaded == loadPlaceLocations(backend)
    IN /\ currentStyle = style
       /\ tileLayers = {style}
       /\ markers = <<>>
       /\ yearOptions = initializeYearFilter(<<>>)
       /\ selectedYear = IF Truthy(store.mapYear) THEN store.mapYear ELSE Null
       /\ mapDiv = loaded.mapDiv
       /\ network = {TileRequest} \cup loaded.requests
       /\ allLocations = <<>>
       /\ status = [text |-> "", visits |-> 0, className |-> ""]
       /\ pending = <<>>
       /\ reads = <<>>
       /\ localStorage = store
       /\ selected = NoFile
       /\ pageLoads = 0

\* no analysis is run on the page of this version
EngineOff ==
    /\ visits = <<>>
    /\ movements = <<>>
    /\ places = <<>>
    /\ stats = aggregate(<<>>, <<>>, <<>>)
    /\ run = "off"

HandlerIdle == [pc |-> "idle", db |-> 0, rows |-> <<>>]

NoResponse == [status |-> 0, body |-> [json |-> "none", elems |-> <<>>]]

\* no request is made to the place-cache service
ServiceOff ==
    /\ table = <<>>
    /\ handles = <<>>
    /\ handler = HandlerIdle
    /\ response = NoResponse
    /\ fetch = [pc |-> "off", requests |-> 0]
    /\ console = <<>>

\* The page as deployed, a static site without the place-cache service,
\* after its first load; the user has the export B, two dated visits, and
\* any file A.
Init ==
    /\ \E file \in Files : exports = [A |-> file, B |-> BaseFile]
    /\ backend = "absent"
    /\ InitMap(FreshStore)
    /\ EngineOff
    /\ ServiceOff

\* The same page, A an export with segments of all shapes.
InitShapes ==
    /\ \E file \in ShapeFiles : exports = [A |-> file, B |-> BaseFile]
    /\ backend = "absent"
    /\ InitMap(FreshStore)
    /\ EngineOff
    /\ ServiceOff

\* files for the page as a whole: no JSON, an empty export, an undated visit
\* before a null segment
PageFiles == {NotJson, Export(<<>>), Export(<<"noTime", "null">>)}

\* The page with or without the service behind it.
InitPage ==
    /\ \E file \in PageFiles : exports = [A |-> file, B |-> BaseFile]
    /\ backend \in {"up", "absent"}
    /\ InitMap(FreshStore)
    /\ EngineOff
    /\ ServiceOff

ErrorStatus ==
    [text |-> "Error parsing JSON file", visits |-> 0, className |-> "text-red-600"]

LoadedStatus(n) ==
    [text |-> "Loaded", visits |-> n, className |-> "text-green-600"]

\* handleFileUpload: the change event of the file input; name is the file
\* chosen, or NoFile when the dialog was cancelled
handleFileUpload(name) ==
    /\ Len(reads) + Len(pending) < MaxLoads
    /\ IF name = NoFile
       THEN UNCHANGED <<pending, status, selected>>
       ELSE /\ pending' = Append(pending, name)
            /\ status' = [status EXCEPT !.text = "Parsing..."]
            /\ selected' = name
    /\ UNCHANGED <<exports, backend, allLocations, markers, selectedYear,
                   yearOptions, reads, currentStyle, tileLayers,
                   localStorage, mapDiv, network>>
    /\ UNCHANGED <<pageLoads, engineVars, serviceVars>>

\* reader.onload of the i-th read in flight: JSON.parse, processTimelineData
\* (the forEach, renderMarkers, initializeYearFilter) and the status line, or
\* the catch block
readerOnload(i) ==
    LET name == pending[i]
        content == exports[name]
        r == Normalize(JsonParse(content), allLocations)
    IN /\ pending' = SubSeq(pending, 1, i - 1) \o SubSeq(pending, i + 1, Len(pending))
       /\ reads' = Append(reads, name)
       /\ IF ~IsJson(content)
          THEN /\ status' = ErrorStatus
               /\ UNCHANGED <<allLocations, markers, yearOptions, network>>
          ELSE IF r.threw
          THEN /\ allLocations' = r.locs
               /\ status' = ErrorStatus
               /\ UNCHANGED <<markers, yearOptions, network>>
          ELSE /\ allLocations' = r.locs
               /\ markers' = renderMarkers(markers, r.locs, selectedYear)
               /\ network' = network \cup ViewRequests(markers')
               /\ yearOptions' = initializeYearFilter(yearOptions)
               /\ status' = LoadedStatus(Len(r.locs))
       /\ UNCHANGED <<exports, backend, selectedYear, currentStyle, tileLayers,
                      localStorage, mapDiv, selected>>
       /\ UNCHANGED <<pageLoads, engineVars, serviceVars>>

\* onYearFilterChange with the dropdown set to value
onYearFilterChange(value) ==
    /\ selectedYear' = IF value = Str(<<>>) THEN Null ELSE value
    /\ localStorage' = [localStorage EXCEPT !.mapYear = value]
    /\ markers' = renderMarkers(markers, allLocations, selectedYear')
    /\ network' = network \cup ViewRequests(markers')
    /\ UNCHANGED <<exports, backend, allLocations, yearOptions, status, pending,
                   reads, currentStyle, tileLayers, mapDiv, selected>>
    /\ UNCHANGED <<pageLoads, engineVars, serviceVars>>

\* (a removal that leaves the tile layers on the map)
keepTileLayers(layers) == layers

\* map.eachLayer: every tile layer on the map is removed
removeTileLayers(layers) == {}

\* tileLayers[style].addTo(map)
addTo(layers, style) == layers \cup {style}

\* switchMapStyle(style)
switchMapStyle(style) ==
    /\ IF style = currentStyle
       THEN UNCHANGED <<currentStyle, localStorage, tileLayers, network>>
       ELSE /\ currentStyle' = style
            /\ localStorage' = [localStorage EXCEPT !.mapStyle = style]
            /\ tileLayers' = addTo(removeTileLayers(tileLayers), currentStyle')
            /\ network' = network \cup {TileRequest}
    /\ UNCHANGED <<exports, backend, allLocations, markers, selectedYear,
                   yearOptions, status, pending, reads, mapDiv, selected>>
    /\ UNCHANGED <<pageLoads, engineVars, serviceVars>>

Upload == \E name \in FileNames \cup {NoFile} : handleFileUpload(name)

Onload == \E i \in 1..Len(pending) : readerOnload(i)

YearChange == \E value \in YearValues : onYearFilterChange(value)

StyleSwitch == \E style \in {"light", "dark"} : switchMapStyle(style)

Next == Upload \/ Onload \/ YearChange

Spec == Init /\ [][Next]_vars

SpecShapes == InitShapes /\ [][Next]_vars

NextPage == Upload \/ Onload \/ YearChange \/ StyleSwitch

SpecPage == InitPage /\ [][NextPage]_vars

\* page loads after the first
MaxReloads == 2

\* the page is loaded again: the script's globals and the document start
\* anew, reads in flight are dropped, localStorage is kept, and initMap runs
reloadPage ==
    /\ pageLoads < MaxReloads
    /\ pageLoads' = pageLoads + 1
    /\ LET savedStyle == localStorage.mapStyle
           style == IF savedStyle \in {"dark", "light"} THEN savedStyle ELSE "light"
           savedYear == localStorage.mapYear
           loaded == loadPlaceLocations(backend)
       IN /\ currentStyle' = style
          /\ tileLayers' = addTo({}, style)
          /\ markers' = <<>>
          /\ yearOptions' = initializeYearFilter(<<>>)
          /\ selectedYear' = IF Truthy(savedYear) THEN savedYear ELSE Null
          /\ mapDiv' = loaded.mapDiv
          /\ network' = {TileRequest} \cup loaded.requests
    /\ allLocations' = <<>>
    /\ status' = [text |-> "", visits |-> 0, className |-> ""]
    /\ pending' = <<>>
    /\ reads' = <<>>
    /\ selected' = NoFile
    /\ UNCHANGED <<exports, backend, localStorage>>
    /\ UNCHANGED <<engineVars, serviceVars>>

Reload == reloadPage

NextReload == Upload \/ Onload \/ YearChange \/ StyleSwitch \/ Reload

\* the page over several loads with the same localStorage
SpecReload == InitPage /\ [][NextReload]_vars

(***************************************************************************)
(* A run of the engine on a visit sequence and a movement sequence.        *)
(***************************************************************************)
pageVars ==
    <<exports, backend, allLocations, markers, selectedYear, yearOptions,
      status, pending, reads, currentStyle, tileLayers, localStorage,
      mapDiv, network, selected, pageLoads>>

\* the page with nothing uploaded
PageIdle ==
    /\ exports = [A |-> Export(<<>>), B |-> BaseFile]
    /\ backend = "absent"
    /\ InitMap(FreshStore)

EngineReady ==
    /\ places = <<>>
    /\ stats = aggregate(<<>>, <<>>, <<>>)
    /\ run = "ready"

\* visit sequences of all sorts, no movement
InitDedupe ==
    /\ PageIdle
    /\ ServiceOff
    /\ visits \in SeqsUpTo(Visits, MaxVisits)
    /\ movements = <<>>
    /\ EngineReady

\* movement sequences of all sorts, visits far apart or none
InitStats ==
    /\ PageIdle
    /\ ServiceOff
    /\ visits \in SeqsUpTo({Visit(0, NoId), Visit(5000, NoId)}, MaxMoves)
    /\ movements \in SeqsUpTo(Movements, MaxMoves)
    /\ EngineReady

Analyze ==
    /\ run = "ready"
    /\ LET result == analyze(visits, movements)
       IN /\ places' = result.places
          /\ stats' = result.stats
    /\ run' = "done"
    /\ UNCHANGED <<visits, movements>>
    /\ UNCHANGED <<pageVars, serviceVars>>

NextEngine == Analyze

SpecDedupe == InitDedupe /\ [][NextEngine]_vars

SpecStats == InitStats /\ [][NextEngine]_vars

(***************************************************************************)
(* The place-cache service (backend/main.go) and the page that loads its   *)
(* place locations (script.js).                                            *)
(***************************************************************************)
\* page loads, one request to the service each
MaxRequests == 2

\* rows of place_locations; city and country may be NULL
RowA == [place_id |-> "a", lat |-> 10, lng |-> 20,
         city |-> "null", country |-> "null"]

RowB == [place_id |-> "b", lat |-> -5, lng |-> 7,
         city |-> "Rome", country |-> "Italy"]

\* the table as SELECT ... ORDER BY place_id gives it
Tables == {<<>>, <<RowA>>, <<RowB>>, <<RowA, RowB>>}

\* var locations []PlaceLocation
NilSlice == [nil |-> TRUE, elems |-> <<>>]

\* append(locations, loc)
append(slice, loc) == [nil |-> FALSE, elems |-> Append(slice.elems, loc)]

\* the for rows.Next() loop from row i on; a row whose Scan fails is left out
RECURSIVE scanRows(_, _, _, _)
scanRows(rows, failing, i, locations) ==
    IF i > Len(rows) THEN locations
    ELSE IF i \in failing THEN scanRows(rows, failing, i + 1, locations)
    ELSE scanRows(rows, failing, i + 1, append(locations, rows[i]))

\* json.NewEncoder(w).Encode(locations): a nil slice is written as null
Encode(slice) ==
    IF slice.nil THEN [json |-> "null", elems |-> <<>>]
    ELSE [json |-> "array", elems |-> slice.elems]

\* http.Error(w, message, http.StatusInternalServerError)
httpError(message) ==
    [status |-> 500, body |-> [json |-> "text", elems |-> <<message>>]]

\* response.json()
ResponseJson(body) ==
    IF body.json = "null" THEN Null ELSE Arr(body.elems)

\* buildPopupContent of script.js
buildPlacePopup(location) ==
    [city |-> location.city,
     country |-> location.country,
     coords |-> <<location.lat, location.lng>>]

ApiRequest == [to |-> "api", body |-> "none"]

NoLocationsWarning == "No place locations found"

\* the page of script.js after initMap: loadPlaceLocations has called fetch
InitService ==
    /\ exports = [A |-> Export(<<>>), B |-> BaseFile]
    /\ backend \in {"up", "absent"}
    /\ currentStyle = "light"
    /\ tileLayers = {"light"}
    /\ markers = <<>>
    /\ yearOptions = <<>>
    /\ selectedYear = Null
    /\ mapDiv = "map"
    /\ network = {TileRequest, ApiRequest}
    /\ allLocations = <<>>
    /\ status = [text |-> "", visits |-> 0, className |-> ""]
    /\ pending = <<>>
    /\ reads = <<>>
    /\ localStorage = FreshStore
    /\ selected = NoFile
    /\ pageLoads = 0
    /\ EngineOff
    /\ table \in Tables
    /\ handles = <<>>
    /\ handler = HandlerIdle
    /\ response = NoResponse
    /\ fetch = [pc |-> "sent", requests |-> 1]
    /\ console = <<>>

uploadVars ==
    <<exports, backend, allLocations, selectedYear, yearOptions, status,
      pending, reads, currentStyle, tileLayers, localStorage, selected,
      pageLoads>>

\* the catch block of loadPlaceLocations
loadPlaceLocationsCatch ==
    /\ console' = Append(console, "Error loading place locations")
    /\ mapDiv' = "error"
    /\ UNCHANGED <<markers, network>>

\* fetch rejects: nothing listens on localhost:8080
fetchRejected ==
    /\ fetch.pc = "sent"
    /\ backend = "absent"
    /\ loadPlaceLocationsCatch
    /\ fetch' = [fetch EXCEPT !.pc = "done"]
    /\ UNCHANGED <<table, handles, handler, response>>
    /\ UNCHANGED <<uploadVars, engineVars>>

\* the request reaches placeLocationsHandler
serveRequest ==
    /\ fetch.pc = "sent"
    /\ backend = "up"
    /\ handler.pc = "idle"
    /\ handler' = [handler EXCEPT !.pc = "start"]
    /\ fetch' = [fetch EXCEPT !.pc = "waiting"]
    /\ UNCHANGED <<table, handles, response, console, markers, mapDiv, network>>
    /\ UNCHANGED <<uploadVars, engineVars>>

\* db.Close()
Close(hs, db) == [hs EXCEPT ![db] = "closed"]

\* getDBConnection and the handler's test of its error: sql.Open fails, or
\* it gives a handle and db.Ping fails, or both succeed
getDBConnection(outcome) ==
    /\ handler.pc = "start"
    /\ CASE outcome = "openError" ->
              /\ response' = httpError("Database connection error")
              /\ handler' = HandlerIdle
              /\ UNCHANGED handles
         [] outcome = "pingError" ->
              /\ handles' = Append(handles, "open")
              /\ response' = httpError("Database connection error")
              /\ handler' = HandlerIdle
         [] outcome = "ok" ->
              /\ handles' = Append(handles, "open")
              /\ handler' = [handler EXCEPT !.pc = "connected",
                                            !.db = Len(handles) + 1]
              /\ UNCHANGED response
    /\ UNCHANGED <<table, fetch, console, markers, mapDiv, network>>
    /\ UNCHANGED <<uploadVars, engineVars>>

\* db.Query; on an error the handler answers 500 and the deferred db.Close
\* runs
query(failed) ==
    /\ handler.pc = "connected"
    /\ IF failed
       THEN /\ response' = httpError("Database query error")
            /\ handles' = Close(handles, handler.db)
            /\ handler' = HandlerIdle
       ELSE /\ handler' = [handler EXCEPT !.pc = "queried", !.rows = table]
            /\ UNCHANGED <<response, handles>>
    /\ UNCHANGED <<table, fetch, console, markers, mapDiv, network>>
    /\ UNCHANGED <<uploadVars, engineVars>>

\* the rows loop, rows.Err, the response, and the deferred rows.Close and
\* db.Close
respond(failing, rowsErr) ==
    /\ handler.pc = "queried"
    /\ LET locations == scanRows(handler.rows, failing, 1, NilSlice)
       IN response' = IF rowsErr THEN httpError("Database error")
                      ELSE [status |-> 200, body |-> Encode(locations)]
    /\ handles' = Close(handles, handler.db)
    /\ handler' = HandlerIdle
    /\ UNCHANGED <<table, fetch, console, markers, mapDiv, network>>
    /\ UNCHANGED <<uploadVars, engineVars>>

\* loadPlaceLocations after await fetch(...): the response is there
loadPlaceLocations_resume ==
    /\ fetch.pc = "waiting"
    /\ handler.pc = "idle"
    /\ response.status # 0
    /\ LET locations == ResponseJson(response.body)
       IN IF response.status # 200 \/ ReadThrows(locations)
          THEN loadPlaceLocationsCatch
          ELSE IF Len(locations.a) = 0
          THEN /\ console' = Append(console, NoLocationsWarning)
               /\ UNCHANGED <<markers, mapDiv, network>>
          ELSE /\ markers' = markers \o
                     [i \in 1..Len(locations.a) |->
                         [lat |-> locations.a[i].lat,
                          lng |-> locations.a[i].lng,
                          popup |-> buildPlacePopup(locations.a[i])]]
               /\ network' = network \cup {TileRequest}
               /\ console' = Append(console, "Loaded place locations")
               /\ UNCHANGED mapDiv
    /\ fetch' = [fetch EXCEPT !.pc = "done"]
    /\ UNCHANGED <<table, handles, handler, response>>
    /\ UNCHANGED <<uploadVars, engineVars>>

\* the page is loaded again: initMap, loadPlaceLocations, fetch
reload ==
    /\ fetch.pc = "done"
    /\ fetch.requests < MaxRequests
    /\ fetch' = [pc |-> "sent", requests |-> fetch.requests + 1]
    /\ markers' = <<>>
    /\ mapDiv' = "map"
    /\ console' = <<>>
    /\ response' = NoResponse
    /\ network' = {TileRequest, ApiRequest}
    /\ UNCHANGED <<table, handles, handler>>
    /\ UNCHANGED <<uploadVars, engineVars>>

Connect == \E outcome \in {"openError", "pingError", "ok"} : getDBConnection(outcome)

Query == \E failed \in BOOLEAN : query(failed)

Respond ==
    \E failing \in SUBSET (1..Len(handler.rows)) :
        \E rowsErr \in BOOLEAN : respond(failing, rowsErr)

NextService ==
    \/ fetchRejected
    \/ serveRequest
    \/ Connect
    \/ Query
    \/ Respond
    \/ loadPlaceLocations_resume
    \/ reload

SpecService == InitService /\ [][NextService]_vars

(***************************************************************************)
(* What the claims speak of.                                               *)
(***************************************************************************)
\* the file the last onload callback was given
LastRead == IF reads = <<>> THEN NoFile ELSE reads[Len(reads)]

LastFile == exports[LastRead]

\* the outcome of the last onload callback, which the colour of the status
\* line keeps while a later read is in flight
LastSucceeded == status.className = "text-green-600"

LastFailed == status.className = "text-red-600"

\* the last callback was given an export and there has been one
ReadAnExport == reads # <<>> /\ LastFile.kind = "export"

\* the visit a segment taken alone gives, if it gives one
VisitAlone(shape) == SegmentCallback(Segment(shape), <<>>).locs

\* the visits of the qualifying segments of an export, one each, in order
RECURSIVE QualifyingVisits(_)
QualifyingVisits(shapes) ==
    IF shapes = <<>> THEN <<>>
    ELSE VisitAlone(Head(shapes)) \o QualifyingVisits(Tail(shapes))

IsGoodShape(shape) == shape \in GoodShapes

\* a start time that is no date
Undated(time) == getFullYear(time).nan

UndatedShapes == {"noTime", "badTime"}

IsUndatedShape(shape) == shape \in UndatedShapes

\* a marker whose popup has no date line or an invalid one
UndatedMarker(m) == m.popup.date.tag = "undefined" \/ m.popup.date.nan

Count(seq, Test(_)) == Len(SelectSeq(seq, Test))

\* an export with no segments: semanticSegments absent or empty
ZeroSegments(file) == file = Export(<<>>) \/ file = OddFile("noSegments")

\* the numbers the status line shows
NumbersShown == IF status.text = "Loaded" THEN {status.visits} ELSE {}

\* a step in which an onload callback runs
OnloadStep == Len(reads') = Len(reads) + 1

(***************************************************************************)
(* C1.  A failed upload leaves allLocations and the markers as they were   *)
(* before it, or both as the complete result of the upload.  The code      *)
(* empties allLocations before it reads the document and fills it segment  *)
(* by segment; an exception leaves it so, with the old markers on the map. *)
(***************************************************************************)
C1_NoPartialMutationOnFailure ==
    [][(OnloadStep /\ status'.className = "text-red-600")
         => \/ allLocations' = allLocations /\ markers' = markers
            \/ /\ LastFile'.kind = "export"
               /\ allLocations' = QualifyingVisits(LastFile'.segs)
               /\ markers' = renderMarkers(<<>>, allLocations', selectedYear')]_vars

(***************************************************************************)
(* C2.  A visit whose coordinate string is malformed or out of range is    *)
(* skipped, the other visits of the export are kept and the import         *)
(* succeeds.  The code only tests for NaN: latitude 95 is kept.            *)
(***************************************************************************)
C2_BadCoordinateSkipped ==
    (/\ ReadAnExport
     /\ \A i \in 1..Len(LastFile.segs) :
            LastFile.segs[i] \in GoodShapes \cup {"lat95", "latNaN", "onePart"})
    => /\ LastSucceeded
       /\ allLocations = QualifyingVisits(SelectSeq(LastFile.segs, IsGoodShape))

(***************************************************************************)
(* C3.  A segment of unrecognized shape, anywhere in the list, is skipped: *)
(* processTimelineData does not throw and returns the visits of the        *)
(* well-formed segments.  The code reads segment.visit of a null entry.    *)
(***************************************************************************)
C3_UnrecognizedShapeSkipped ==
    (/\ ReadAnExport
     /\ \A i \in 1..Len(LastFile.segs) :
            LastFile.segs[i] \in GoodShapes \cup UnrecognizedShapes)
    => /\ LastSucceeded
       /\ allLocations = QualifyingVisits(SelectSeq(LastFile.segs, IsGoodShape))

(***************************************************************************)
(* C4.  An upload ends in the error status exactly when the file is not    *)
(* JSON or its value is not an object.                                     *)
(***************************************************************************)
C4_FailsOnlyOnUnrecoverableInput ==
    reads # <<>>
    => (LastFailed <=> (IF IsJson(LastFile)
                        THEN JsonParse(LastFile).tag # "object" ELSE TRUE))

(***************************************************************************)
(* C5.  After processTimelineData the visit list holds one entry per       *)
(* qualifying segment, in the order of the segments, duplicates kept.      *)
(***************************************************************************)
C5_OrderPreservedNoDedup ==
    (ReadAnExport /\ LastSucceeded)
    => allLocations = QualifyingVisits(LastFile.segs)

C5_Witness ==
    /\ ReadAnExport /\ LastSucceeded
    /\ LastFile.segs = <<"noTime", "noTime">>
    /\ Len(allLocations) = 2
    /\ allLocations[1] = allLocations[2]

(***************************************************************************)
(* C6 as stated: a visit whose start time is missing or no date is in the  *)
(* visit list with a null start time.                                      *)
(***************************************************************************)
C6_NullStartTime ==
    \A i \in 1..Len(allLocations) :
        Undated(allLocations[i].startTime)
        => allLocations[i].startTime \in {Null, Undefined}

(***************************************************************************)
(* C6 as amended: such a visit is in the visit list with the start time    *)
(* the export gave it (none, or the string that is no date); no marker is  *)
(* drawn for it while a year is selected, and one is when none is.         *)
(***************************************************************************)
C6_UndatedVisitKeptAndFiltered ==
    (ReadAnExport /\ LastSucceeded)
    => LET undated == SelectSeq(LastFile.segs, IsUndatedShape)
           kept == {i \in 1..Len(allLocations) :
                        Undated(allLocations[i].startTime)}
       IN /\ Cardinality(kept) = Len(undated)
          /\ \A i \in kept :
                 \E k \in 1..Len(undated) :
                     allLocations[i].startTime
                         = Get(Segment(undated[k]), "startTime")
          /\ selectedYear # Null => Count(markers, UndatedMarker) = 0
          /\ selectedYear = Null => Count(markers, UndatedMarker) = Len(undated)

C6_Witness ==
    /\ ReadAnExport /\ LastSucceeded
    /\ LastFile.segs = <<"badTime", "home">>
    /\ selectedYear = OptionValue(2021)
    /\ Len(allLocations) = 2
    /\ Len(markers) = 1

(***************************************************************************)
(* C7.  An export with no segments is no error: the upload succeeds with   *)
(* zero visits, and the visit list and the markers are empty afterwards,   *)
(* whatever was loaded before.                                             *)
(***************************************************************************)
C7_EmptyExportClears ==
    (reads # <<>> /\ ZeroSegments(LastFile))
    => /\ LastSucceeded
       /\ status.visits = 0
       /\ allLocations = <<>>
       /\ markers = <<>>

C7_Witness ==
    /\ reads = <<"B", "A">>
    /\ ZeroSegments(exports["A"])
    /\ status = LoadedStatus(0)

(***************************************************************************)
(* C8.  Processing the export that was processed last, and with success,   *)
(* once more leaves the visit list, the markers and the count as they are. *)
(***************************************************************************)
C8_SecondRunChangesNothing ==
    [][(OnloadStep /\ reads # <<>> /\ LastRead' = LastRead /\ LastSucceeded)
         => /\ allLocations' = allLocations
            /\ markers' = markers
            /\ status' = LoadedStatus(status.visits)]_vars

C8_Witness ==
    /\ reads = <<"A", "A">>
    /\ LastSucceeded
    /\ Len(allLocations) = 2
    /\ Len(markers) = 1

(***************************************************************************)
(* C9.  After a successful upload in which k segments were skipped, what   *)
(* the caller sees carries k.  The status line carries the number of       *)
(* visits and nothing else.                                                *)
(***************************************************************************)
C9_SkippedCountReported ==
    (ReadAnExport /\ status.text = "Loaded")
    => (Len(LastFile.segs) - Len(allLocations)) \in NumbersShown

Analyzed == run = "done"

\* the Places that hold visit i
PlacesOf(i) ==
    {k \in 1..Len(places) :
        \E m \in 1..Len(places[k].visits) : places[k].visits[m] = i}

SamePlace(i, j) == PlacesOf(i) \cap PlacesOf(j) # {}

RECURSIVE SumVisitCounts(_)
SumVisitCounts(ps) ==
    IF ps = <<>> THEN 0 ELSE Head(ps).visitCount + SumVisitCounts(Tail(ps))

\* a link of a chain: within the threshold, and, for a link without
\* conflict, not two different identifiers
ChainLink(u, v, noConflict) ==
    Within(u, v) /\ (noConflict => ~IdConflict(u, v))

\* the visits a chain of links connects to the given ones
RECURSIVE Chained(_, _)
Chained(reached, noConflict) ==
    LET more == {j \in (1..Len(visits)) \ reached :
                     \E i \in reached :
                         ChainLink(visits[i], visits[j], noConflict)}
    IN IF more = {} THEN reached ELSE Chained(reached \cup more, noConflict)

RECURSIVE SumDistancesOf(_)
SumDistancesOf(indices) ==
    IF indices = {} THEN 0
    ELSE LET i == CHOOSE k \in indices : TRUE
         IN movements[i].distanceMeters + SumDistancesOf(indices \ {i})

(***************************************************************************)
(* C11.  After dedupe the Places partition the visits: every visit is a    *)
(* member of exactly one Place, a Place's visitCount is the number of its  *)
(* members and at least 1, and the visitCounts add up to the number of     *)
(* visits.                                                                 *)
(***************************************************************************)
C11_PlacesPartitionVisits ==
    Analyzed
    => /\ \A i \in 1..Len(visits) : Cardinality(PlacesOf(i)) = 1
       /\ \A k \in 1..Len(places) :
              /\ places[k].visitCount >= 1
              /\ places[k].visitCount = Len(places[k].visits)
              /\ \A m \in 1..Len(places[k].visits) :
                     places[k].visits[m] \in 1..Len(visits)
       /\ SumVisitCounts(places) = Len(visits)

C11_Witness ==
    /\ Analyzed
    /\ visits = <<Visit(0, NoId), Visit(5000, "p"), Visit(60, NoId)>>
    /\ Len(places) = 2
    /\ places[1].visits = <<1, 3>>
    /\ places[2].visits = <<2>>

(***************************************************************************)
(* C12 as stated: two visits are in the same Place whenever a chain of     *)
(* visits connects them with every consecutive pair within the threshold.  *)
(* (No three coordinates are 50 m, 50 m and 140 m apart: the distance is a *)
(* metric.)  Two visits within the threshold that carry different          *)
(* identifiers do not merge.                                               *)
(***************************************************************************)
C12_ChainWithinThresholdMerges ==
    Analyzed
    => \A i \in 1..Len(visits) :
           \A j \in Chained({i}, FALSE) : SamePlace(i, j)

(***************************************************************************)
(* C12 as amended: two visits are in the same Place whenever a chain of    *)
(* visits connects them with every consecutive pair within the threshold   *)
(* and without sourcePlaceId conflict; visits 60 m, 60 m and 120 m apart   *)
(* end up in one Place.                                                    *)
(***************************************************************************)
C12_SingleLinkage ==
    Analyzed
    => \A i \in 1..Len(visits) :
           \A j \in Chained({i}, TRUE) : SamePlace(i, j)

C12_Witness ==
    /\ Analyzed
    /\ visits = <<Visit(0, NoId), Visit(60, NoId), Visit(120, NoId)>>
    /\ ~Within(visits[1], visits[3])
    /\ Len(places) = 1
    /\ places[1].visitCount = 3

(***************************************************************************)
(* C13.  Two visits that share a non-null sourcePlaceId are in the same    *)
(* Place, whatever the distance between them.                              *)
(***************************************************************************)
C13_IdentifierBeforeProximity ==
    Analyzed
    => \A i, j \in 1..Len(visits) :
           SharesId(visits[i], visits[j]) => SamePlace(i, j)

C13_Witness ==
    /\ Analyzed
    /\ visits = <<Visit(0, "p"), Visit(5000, "p")>>
    /\ Len(places) = 1
    /\ places[1].visits = <<1, 2>>

C15_DistanceAndCarbon ==
    Analyzed
    => /\ stats.totalDistance = SumDistancesOf(DOMAIN movements)
       /\ stats.carbonEstimate = stats.totalDistance * E
       /\ movements = <<MovementSegment(1000)>>
          => stats.totalDistance = 1000 /\ stats.carbonEstimate = 1000 * E
       /\ movements = <<>>
          => stats.totalDistance = 0 /\ stats.carbonEstimate = 0

C15_Witness ==
    /\ Analyzed
    /\ movements = <<MovementSegment(1000)>>
    /\ visits = <<Visit(0, NoId), Visit(5000, NoId)>>
    /\ stats.totalDistance = 1000
    /\ stats.carbonEstimate = 1000 * E

(***************************************************************************)
(* What the claims about the map and the uploads speak of.                 *)
(***************************************************************************)
\* the visit's start time is of the selected year, or no year is selected
InSelectedYear(loc) ==
    \/ selectedYear = Null
    \/ LET visitYear == getFullYear(loc.startTime)
           year == parseFloat(selectedYear.s)
       IN ~visitYear.nan /\ ~year.nan /\ visitYear.n = year.n

\* the status line an upload of the file leaves
OutcomeOf(file) ==
    IF ~IsJson(file) THEN ErrorStatus
    ELSE LET r == Normalize(JsonParse(file), <<>>)
         IN IF r.threw THEN ErrorStatus ELSE LoadedStatus(Len(r.locs))

(***************************************************************************)
(* C16.  In every state the markers on the map are the entries of          *)
(* allLocations whose start time is of the selected year, or all entries   *)
(* when no year is selected.  A failed upload has emptied and partly       *)
(* refilled allLocations without drawing.                                  *)
(***************************************************************************)
C16_MarkersShowFilteredLocations ==
    LET shown == SelectSeq(allLocations, InSelectedYear)
    IN {<<markers[i].lat, markers[i].lng>> : i \in 1..Len(markers)}
       = {<<shown[i].lat, shown[i].lng>> : i \in 1..Len(shown)}

(***************************************************************************)
(* C17.  Once no read is in flight, the status line and the visit list are *)
(* those of the file selected last, in whichever order the onload          *)
(* callbacks of overlapping reads ran.  Each callback writes allLocations  *)
(* and the status line when it runs: the one that runs last wins.          *)
(***************************************************************************)
C17_LastSelectedWins ==
    (pending = <<>> /\ selected # NoFile)
    => /\ status = OutcomeOf(exports[selected])
       /\ status.text = "Loaded"
          => allLocations = Normalize(JsonParse(exports[selected]), <<>>).locs

(***************************************************************************)
(* C19.  The year dropdown lists each year from 2020 to the current year   *)
(* once, in every state.  processTimelineData calls initializeYearFilter,  *)
(* which appends the options again.                                        *)
(***************************************************************************)
C19_EachYearListedOnce ==
    /\ Len(yearOptions) = CurrentYear - StartYear + 1
    /\ \A i, j \in 1..Len(yearOptions) :
           yearOptions[i] = yearOptions[j] => i = j
    /\ \A year \in StartYear..CurrentYear :
           \E i \in 1..Len(yearOptions) : yearOptions[i] = year

(***************************************************************************)
(* C18.  With an empty place_locations table and the database working, the *)
(* request is answered 200 with an empty JSON array, and the page logs     *)
(* 'No place locations found' and leaves the map element as it is.  The    *)
(* handler encodes a nil slice, which is written as null.                  *)
(***************************************************************************)
C18_EmptyTableNoLocations ==
    (table = <<>> /\ response.status = 200 /\ fetch.pc = "done")
    => /\ response.body = [json |-> "array", elems |-> <<>>]
       /\ \E i \in 1..Len(console) : console[i] = NoLocationsWarning
       /\ mapDiv = "map"

(***************************************************************************)
(* C20.  When a request is complete, every database handle opened while    *)
(* serving it, or an earlier one, is closed.  getDBConnection returns      *)
(* without closing the handle when db.Ping fails.                          *)
(***************************************************************************)
C20_HandlesClosed ==
    handler.pc = "idle"
    => \A db \in 1..Len(handles) : handles[db] = "closed"

(***************************************************************************)
(* C21.  Through initMap, style switches, uploads, year changes and        *)
(* reloads, exactly one tile layer is on the map, the one of currentStyle; *)
(* a step that changes the style leaves it in localStorage 'mapStyle', and *)
(* a stored 'light' or 'dark' is the current style after every step, a     *)
(* reload included; a step that leaves the style as it is changes neither  *)
(* the tile layers nor the stored style.                                   *)
(***************************************************************************)
C21_OneTileLayerOfCurrentStyle ==
    [][/\ tileLayers = {currentStyle}
       /\ tileLayers' = {currentStyle'}
       /\ currentStyle' # currentStyle => localStorage'.mapStyle = currentStyle'
       /\ localStorage'.mapStyle \in {"light", "dark"}
          => currentStyle' = localStorage'.mapStyle
       /\ currentStyle' = currentStyle
          => /\ tileLayers' = tileLayers
             /\ localStorage'.mapStyle = localStorage.mapStyle]_vars

C21_Witness ==
    /\ pageLoads = 1
    /\ currentStyle = "dark"
    /\ tileLayers = {"dark"}
    /\ localStorage.mapStyle = "dark"
    /\ reads = <<>>

====
